---- MODULE Spec2Model ----
(***************************************************************************)
(* A model of amazon_search.py: the HTTP client's retry policy, the two    *)
(* fetchers (get_suggestions, get_result_count), the orchestrator          *)
(* (discover_niches) and the top-level reporting block.                    *)
(***************************************************************************)
EXTENDS Integers, Sequences, FiniteSets, TLC

VARIABLES
    \* ---- one run of the script (the __main__ block and discover_niches)
    world,          \* which inputs the environment offers ("full" or "small")
    pc,             \* position of the run
    threshold,      \* args.threshold
    sessions,       \* number of clients create_session has built in this run
    suggestions,    \* discover_niches: suggestions
    results,        \* discover_niches: results
    niche_results,  \* __main__: niche_results (<<>> until discover_niches returns)
    inflight,       \* number of HTTP requests in flight
    trace,          \* the I/O calls of the run, in order
    fileOpen,       \* discovered_niches.log is open for append
    written,        \* number of report lines written so far
    log,            \* content of discovered_niches.log, a sequence of lines
    logBefore,      \* its content when the current run started
    exitCode,       \* process exit status (-1 while running)
    message,        \* which final message the run printed
    runs,           \* number of runs started so far
    \* ---- one call of a fetcher on a given response
    fcall, sugg_resp, count_resp, sugg_out, count_out,
    \* ---- one logical request through the retrying adapter
    rphase, sends, total, attemptLog, rresult

runVars == <<world, pc, threshold, sessions, suggestions, results, niche_results,
             inflight, trace, fileOpen, written, log, logBefore, exitCode,
             message, runs>>
fetchVars == <<fcall, sugg_resp, count_resp, sugg_out, count_out>>
retryVars == <<rphase, sends, total, attemptLog, rresult>>
vars == <<runVars, fetchVars, retryVars>>

\* ------------------------------------------------------------------ bounds
MaxSuggestions == 2
MaxRuns == 2
MaxPageTokens == 4

\* --------------------------------------------------------------- constants
MAX_RETRIES == 3
RETRY_STATUS_CODES == {429, 500, 502, 503, 504}
LOW_COMPETITION_THRESHOLD == 2000

\* ----------------------------------------------------------------- helpers
SeqsUpTo(S, n) == UNION {[1..k -> S] : k \in 0..n}

IsPrefix(s, t) == Len(s) <= Len(t) /\ SubSeq(t, 1, Len(s)) = s

\* ============================================================ text and numbers
Digits == {"0", "1", "2", "3", "4", "5", "6", "7", "8", "9"}

DigitVal(c) ==
    CASE c = "0" -> 0 [] c = "1" -> 1 [] c = "2" -> 2 [] c = "3" -> 3
      [] c = "4" -> 4 [] c = "5" -> 5 [] c = "6" -> 6 [] c = "7" -> 7
      [] c = "8" -> 8 [] c = "9" -> 9

DigitChar(d) ==
    CASE d = 0 -> "0" [] d = 1 -> "1" [] d = 2 -> "2" [] d = 3 -> "3"
      [] d = 4 -> "4" [] d = 5 -> "5" [] d = 6 -> "6" [] d = 7 -> "7"
      [] d = 8 -> "8" [] d = 9 -> "9"

\* int(match.group(1).replace(',', '')): the digits of the group, commas dropped
RECURSIVE ParseFrom(_, _, _)
ParseFrom(chars, i, acc) ==
    IF i > Len(chars) THEN acc
    ELSE IF chars[i] = "," THEN ParseFrom(chars, i + 1, acc)
    ELSE ParseFrom(chars, i + 1, 10 * acc + DigitVal(chars[i]))

ParseInt(chars) == ParseFrom(chars, 1, 0)

\* f"{count:,}": decimal digits with a comma before every group of three
RECURSIVE FormatFrom(_, _, _)
FormatFrom(n, k, acc) ==
    LET withDigit == <<DigitChar(n % 10)>> \o acc
    IN  IF n < 10 THEN withDigit
        ELSE IF k % 3 = 2 THEN FormatFrom(n \div 10, k + 1, <<",">> \o withDigit)
        ELSE FormatFrom(n \div 10, k + 1, withDigit)

FormatCount(n) == IF n < 0 THEN <<"-">> \o FormatFrom(-n, 0, <<>>)
                  ELSE FormatFrom(n, 0, <<>>)

\* ============================================================ get_result_count
\* A page text is a sequence of whitespace-separated tokens: a number written
\* with digits and commas, or a word.
Num(chars) == [w |-> "num", d |-> chars]
Word(s) == [w |-> s, d |-> <<>>]

Tokens == {Num(<<"0">>), Num(<<"7">>), Num(<<"1", ",", "2", "3", "4">>),
           Word("results"), Word("Results"), Word("over"), Word("product")}

NoElem == [present |-> FALSE, text |-> <<>>]
Elem(text) == [present |-> TRUE, text |-> text]

\* the three (tag, attrs) candidates, in list order
selectors == <<"span[data-component-type=s-result-info-bar]",
               "div.sg-col-inner",
               "div.a-section.a-spacing-small.a-spacing-top-small">>

\* the four regular expressions, in list order
patterns == <<[kw |-> "results", numFirst |-> TRUE],
              [kw |-> "Results", numFirst |-> TRUE],
              [kw |-> "over", numFirst |-> FALSE],
              [kw |-> "product", numFirst |-> TRUE]>>

\* whether pattern p matches at token i, and the group it captures there
MatchesAt(p, text, i) ==
    IF p.numFirst
    THEN text[i].w = "num" /\ text[i + 1].w = p.kw
    ELSE text[i].w = p.kw /\ text[i + 1].w = "num"

GroupAt(p, text, i) == IF p.numFirst THEN text[i].d ELSE text[i + 1].d

\* re.search(pattern, text): the group of the leftmost match, <<>> when none
RECURSIVE SearchFrom(_, _, _)
SearchFrom(p, text, i) ==
    IF i + 1 > Len(text) THEN <<>>
    ELSE IF MatchesAt(p, text, i) THEN GroupAt(p, text, i)
    ELSE SearchFrom(p, text, i + 1)

re_search(p, text) == SearchFrom(p, text, 1)

\* for pattern in patterns: the group of the first pattern that matches
RECURSIVE ScanPatterns(_, _)
ScanPatterns(text, k) ==
    IF k > Len(patterns) THEN <<>>
    ELSE IF re_search(patterns[k], text) # <<>> THEN re_search(patterns[k], text)
    ELSE ScanPatterns(text, k + 1)

\* a loop that gives up at the first element found, whatever its text yields
RECURSIVE ScanSelectorsFirstElemOnly(_, _)
ScanSelectorsFirstElemOnly(page, s) ==
    IF s > Len(selectors) THEN -1
    ELSE IF page[s].present
         THEN IF ScanPatterns(page[s].text, 1) # <<>>
              THEN ParseInt(ScanPatterns(page[s].text, 1))
              ELSE -1
         ELSE ScanSelectorsFirstElemOnly(page, s + 1)

\* for tag, attrs in selectors: return on the first extracted number; an
\* element whose text yields no number lets the loop go on; -1 after the loop
RECURSIVE ScanSelectors(_, _)
ScanSelectors(page, s) ==
    IF s > Len(selectors) THEN -1
    ELSE IF page[s].present /\ ScanPatterns(page[s].text, 1) # <<>>
         THEN ParseInt(ScanPatterns(page[s].text, 1))
         ELSE ScanSelectors(page, s + 1)

\* A response to the search request: the request failed (RequestException,
\* raise_for_status included), the parsing raised another exception, or a page.
RequestError == [kind |-> "request_error", page |-> <<NoElem, NoElem, NoElem>>]
OtherError == [kind |-> "other_error", page |-> <<NoElem, NoElem, NoElem>>]
PageResponse(page) == [kind |-> "page", page |-> page]

Returned(v) == [raised |-> "none", value |-> v]
Raised(cls, v) == [raised |-> cls, value |-> v]

\* the try body of get_result_count
count_try(resp) ==
    CASE resp.kind = "request_error" -> Raised("RequestException", 0)
      [] resp.kind = "other_error" -> Raised("Exception", 0)
      [] OTHER -> Returned(ScanSelectors(resp.page, 1))

\* variant: get_result_count without its `except Exception` clause
get_result_count_NoCatchAll(resp) ==
    IF count_try(resp).raised = "RequestException" THEN Returned(-1)
    ELSE count_try(resp)

\* get_result_count: both except clauses return -1
get_result_count(resp) ==
    CASE count_try(resp).raised = "RequestException" -> Returned(-1)
      [] count_try(resp).raised = "Exception" -> Returned(-1)
      [] OTHER -> count_try(resp)

\* ============================================================ get_suggestions
Keywords == {"a", "b"}

\* An item of data["suggestions"]: a JSON object (with or without "value"), a
\* scalar (null, number, boolean), a string or an array (containing "value" or not).
Obj(v) == [k |-> "object", has |-> TRUE, v |-> v]
ObjNoValue == [k |-> "object", has |-> FALSE, v |-> ""]
Scalar == [k |-> "scalar", has |-> FALSE, v |-> ""]
Str(has) == [k |-> "string", has |-> has, v |-> ""]
Arr(has) == [k |-> "array", has |-> has, v |-> ""]

Items(kws) == {Obj(v) : v \in kws}
                \cup {ObjNoValue, Scalar, Str(TRUE), Str(FALSE), Arr(TRUE), Arr(FALSE)}

\* `"value" in item` raises TypeError on a scalar
InRaises(item) == item.k = "scalar"
\* item["value"] raises TypeError on a string or an array
IndexRaises(item) == item.k \in {"string", "array"}

\* [item["value"] for item in data["suggestions"] if "value" in item]
RECURSIVE Comprehension(_, _, _)
Comprehension(items, i, acc) ==
    IF i > Len(items) THEN Returned(acc)
    ELSE IF InRaises(items[i]) THEN Raised("Exception", <<>>)
    ELSE IF ~items[i].has THEN Comprehension(items, i + 1, acc)
    ELSE IF IndexRaises(items[i]) THEN Raised("Exception", <<>>)
    ELSE Comprehension(items, i + 1, Append(acc, items[i].v))

SuggResponse(kind, items) == [kind |-> kind, items |-> items]

\* the kinds of response other than a "suggestions" list: the request failed,
\* the body is not JSON, the JSON is not a dict, the dict has no "suggestions",
\* "suggestions" is not iterable
SuggFailureKinds == {"request_error", "not_json", "not_dict", "missing", "not_iterable"}

\* the try body of get_suggestions
sugg_try(resp) ==
    CASE resp.kind = "request_error" -> Raised("RequestException", <<>>)
      [] resp.kind = "not_json" -> Raised("Exception", <<>>)
      [] resp.kind = "not_dict" -> Returned(<<>>)
      [] resp.kind = "missing" -> Returned(<<>>)
      [] resp.kind = "not_iterable" -> Raised("Exception", <<>>)
      [] OTHER -> Comprehension(resp.items, 1, <<>>)

\* variant: get_suggestions without its `except Exception` clause
get_suggestions_NoCatchAll(resp) ==
    IF sugg_try(resp).raised = "RequestException" THEN Returned(<<>>)
    ELSE sugg_try(resp)

\* get_suggestions: both except clauses return []
get_suggestions(resp) ==
    CASE sugg_try(resp).raised = "RequestException" -> Returned(<<>>)
      [] sugg_try(resp).raised = "Exception" -> Returned(<<>>)
      [] OTHER -> sugg_try(resp)

\* ------------------------------------------------ calling a fetcher once
ElemsOfLen(l) == IF l < 0 THEN {NoElem} ELSE {Elem(t) : t \in [1..l -> Tokens]}

\* per selector, -1 for no element or the number of tokens of its text
PageShapes(n) ==
    {l \in [1..Len(selectors) -> -1..n] :
        (IF l[1] > 0 THEN l[1] ELSE 0) + (IF l[2] > 0 THEN l[2] ELSE 0)
            + (IF l[3] > 0 THEN l[3] ELSE 0) <= n}

SuggResponses(kws, n) ==
    {SuggResponse(k, <<>>) : k \in SuggFailureKinds}
        \cup {SuggResponse("list", items) : items \in SeqsUpTo(Items(kws), n)}

Pending(v) == Raised("pending", v)

fetchIdle ==
    /\ fcall = "none"
    /\ sugg_resp = SuggResponse("missing", <<>>)
    /\ count_resp = RequestError
    /\ sugg_out = Pending(<<>>)
    /\ count_out = Pending(0)

InitFetch ==
    \/ /\ fcall = "get_suggestions"
       /\ sugg_resp \in SuggResponses(Keywords, MaxSuggestions)
       /\ count_resp = RequestError
       /\ sugg_out = Pending(<<>>)
       /\ count_out = Pending(0)
    \/ /\ fcall = "get_result_count"
       /\ sugg_resp = SuggResponse("missing", <<>>)
       /\ \/ count_resp \in {RequestError, OtherError}
          \/ \E l \in PageShapes(MaxPageTokens) :
               \E e1 \in ElemsOfLen(l[1]), e2 \in ElemsOfLen(l[2]), e3 \in ElemsOfLen(l[3]) :
                   count_resp = PageResponse(<<e1, e2, e3>>)
       /\ sugg_out = Pending(<<>>)
       /\ count_out = Pending(0)

CallGetSuggestions ==
    /\ fcall = "get_suggestions"
    /\ sugg_out.raised = "pending"
    /\ sugg_out' = get_suggestions(sugg_resp)
    /\ UNCHANGED <<fcall, sugg_resp, count_resp, count_out>>
    /\ UNCHANGED <<runVars, retryVars>>

CallGetResultCount ==
    /\ fcall = "get_result_count"
    /\ count_out.raised = "pending"
    /\ count_out' = get_result_count(count_resp)
    /\ UNCHANGED <<fcall, sugg_resp, count_resp, sugg_out>>
    /\ UNCHANGED <<runVars, retryVars>>

\* ============================================================ create_session
\* The adapter mounted by create_session retries with Retry(total=MAX_RETRIES,
\* status_forcelist=RETRY_STATUS_CODES): `total` is the number of retries allowed
\* after the first send; a transport error and a forcelist status each use one up.
RETRY_AFTER_STATUS_CODES == {413, 429, 503}

Statuses == {200, 404, 413} \cup RETRY_STATUS_CODES

TransportError == [err |-> TRUE, status |-> 0, retryAfter |-> FALSE]
Response(s, ra) == [err |-> FALSE, status |-> s, retryAfter |-> ra]

AttemptOutcomes ==
    {TransportError} \cup {Response(s, FALSE) : s \in Statuses}
                     \cup {Response(s, TRUE) : s \in RETRY_AFTER_STATUS_CODES}

\* variant: a policy that retries on every error status
is_retry_any_error(o, left) == o.status >= 400

\* Retry.is_retry for a GET
is_retry(o, left) ==
    \/ o.status \in RETRY_STATUS_CODES
    \/ left # 0 /\ o.retryAfter /\ o.status \in RETRY_AFTER_STATUS_CODES

\* Retry.is_exhausted after an increment
is_exhausted(left) == left < 0

retryIdle ==
    /\ rphase = "idle"
    /\ sends = 0
    /\ total = 0
    /\ attemptLog = <<>>
    /\ rresult = "pending"

InitRetry == retryIdle

\* session.get(url, timeout=REQUEST_TIMEOUT): the first send
RequestSend ==
    /\ rphase = "idle"
    /\ rphase' = "waiting"
    /\ sends' = 1
    /\ total' = MAX_RETRIES
    /\ UNCHANGED <<attemptLog, rresult>>
    /\ UNCHANGED <<runVars, fetchVars>>

\* one attempt ends: re-send, give up, or hand the response to raise_for_status
AttemptResult ==
    /\ rphase = "waiting"
    /\ \E o \in AttemptOutcomes :
        /\ attemptLog' = Append(attemptLog, o)
        /\ IF o.err \/ is_retry(o, total)
           THEN /\ total' = total - 1
                /\ IF is_exhausted(total - 1)
                   THEN /\ rphase' = "done"
                        /\ rresult' = IF o.err THEN "ConnectionError" ELSE "RetryError"
                        /\ sends' = sends
                   ELSE /\ rphase' = "waiting"
                        /\ rresult' = rresult
                        /\ sends' = sends + 1
           ELSE /\ rphase' = "done"
                /\ rresult' = IF o.status >= 400 THEN "HTTPError" ELSE "ok"
                /\ UNCHANGED <<sends, total>>
    /\ UNCHANGED <<runVars, fetchVars>>


\* ============================================================ the run
\* str(n), as the header's {args.threshold}
RECURSIVE PlainFrom(_, _)
PlainFrom(n, acc) ==
    IF n < 10 THEN <<DigitChar(n)>> \o acc
    ELSE PlainFrom(n \div 10, <<DigitChar(n % 10)>> \o acc)

FormatPlain(n) == IF n < 0 THEN <<"-">> \o PlainFrom(-n, <<>>) ELSE PlainFrom(n, <<>>)

\* "\n(...) Low Competition Niches (under {args.threshold} results):\n"
Header(th) == [kind |-> "header", keyword |-> "", text |-> FormatPlain(th)]
\* f"{keyword} -> {count:,} results\n"
Line(r) == [kind |-> "line", keyword |-> r[1], text |-> FormatCount(r[2])]

\* variant: a filter that lets count = threshold through
QualifiesUpToThreshold(r, th) == 0 < r[2] /\ r[2] <= th

\* 0 < r[1] < args.threshold
Qualifies(r, th) == 0 < r[2] /\ r[2] < th

\* [r for r in niche_results if 0 < r[1] < args.threshold]
low_comp(nr, th) == SelectSeq(nr, LAMBDA r : Qualifies(r, th))

\* sorted(low_comp, key=lambda x: x[1]): stable, ascending by count
InsertByCount(x, s) ==
    LET k == Cardinality({i \in 1..Len(s) : s[i][2] <= x[2]})
    IN  SubSeq(s, 1, k) \o <<x>> \o SubSeq(s, k + 1, Len(s))

RECURSIVE SortPrefix(_, _)
SortPrefix(s, n) ==
    IF n = 0 THEN <<>> ELSE InsertByCount(s[n], SortPrefix(s, n - 1))

sorted(s) == SortPrefix(s, Len(s))

Report(nr, th) == sorted(low_comp(nr, th))

\* what the environment offers to a run
Thresholds(w) ==
    IF w = "full" THEN {-1, 0, 7, 8, LOW_COMPETITION_THRESHOLD} ELSE {0, 8}

RunPages(w) ==
    IF w = "full"
    THEN {RequestError,
          PageResponse(<<Elem(<<Num(<<"0">>), Word("results")>>), NoElem, NoElem>>),
          PageResponse(<<Elem(<<Word("over")>>),
                         Elem(<<Num(<<"7">>), Word("results")>>), NoElem>>),
          PageResponse(<<NoElem, NoElem,
                         Elem(<<Word("over"), Num(<<"1", ",", "2", "3", "4">>)>>)>>)}
    ELSE {PageResponse(<<NoElem, NoElem, NoElem>>),
          PageResponse(<<Elem(<<Num(<<"7">>), Word("results")>>), NoElem, NoElem>>)}

PriorLogs(w) ==
    IF w = "full" THEN {<<>>, <<Header(8), Line(<<"b", 7>>)>>} ELSE {<<>>}

InitRun(w) ==
    /\ world = w
    /\ pc = "start"
    /\ threshold \in Thresholds(w)
    /\ sessions = 0
    /\ suggestions = <<>>
    /\ results = <<>>
    /\ niche_results = <<>>
    /\ inflight = 0
    /\ trace = <<>>
    /\ fileOpen = FALSE
    /\ written = 0
    /\ log \in PriorLogs(w)
    /\ logBefore = log
    /\ exitCode = -1
    /\ message = ""
    /\ runs = 1

\* exit(code) after the given final message
Exit(code, msg) ==
    /\ pc' = "exited"
    /\ exitCode' = code
    /\ message' = msg

\* discover_niches: session = create_session()
create_session ==
    /\ pc = "start"
    /\ pc' = "suggest"
    /\ sessions' = sessions + 1
    /\ trace' = Append(trace, "session")
    /\ UNCHANGED <<world, threshold, suggestions, results, niche_results, inflight,
                   fileOpen, written, log, logBefore, exitCode, message, runs>>
    /\ UNCHANGED <<fetchVars, retryVars>>

\* get_suggestions: session.get(url, ...) is issued
SuggestSend ==
    /\ pc = "suggest"
    /\ pc' = "suggest_inflight"
    /\ inflight' = inflight + 1
    /\ trace' = Append(trace, "suggest")
    /\ UNCHANGED <<world, threshold, sessions, suggestions, results, niche_results,
                   fileOpen, written, log, logBefore, exitCode, message, runs>>
    /\ UNCHANGED <<fetchVars, retryVars>>

\* get_suggestions returns; `if not suggestions: return []`
SuggestRecv ==
    /\ pc = "suggest_inflight"
    /\ \E resp \in SuggResponses(Keywords, MaxSuggestions) :
        LET r == get_suggestions(resp)
        IN  IF r.raised # "none"
            THEN /\ Exit(1, "error")
                 /\ UNCHANGED <<suggestions, niche_results>>
            ELSE /\ suggestions' = r.value
                 /\ niche_results' = <<>>
                 /\ pc' = IF r.value = <<>> THEN "check" ELSE "loop"
                 /\ UNCHANGED <<exitCode, message>>
    /\ inflight' = inflight - 1
    /\ UNCHANGED <<world, threshold, sessions, results, trace, fileOpen, written,
                   log, logBefore, runs>>
    /\ UNCHANGED <<fetchVars, retryVars>>

\* variant: a loop without the delay before the request
LoopNextNoDelay ==
    /\ pc = "loop"
    /\ IF Len(results) < Len(suggestions)
       THEN /\ pc' = "sleeping"
            /\ UNCHANGED <<niche_results, trace>>
       ELSE /\ pc' = "check"
            /\ niche_results' = results
            /\ trace' = trace
    /\ UNCHANGED <<world, threshold, sessions, suggestions, results, inflight,
                   fileOpen, written, log, logBefore, exitCode, message, runs>>
    /\ UNCHANGED <<fetchVars, retryVars>>

\* `for suggestion in suggestions`: the next iteration starts with time.sleep,
\* or the loop is over and discover_niches returns results to __main__
LoopNext ==
    /\ pc = "loop"
    /\ IF Len(results) < Len(suggestions)
       THEN /\ pc' = "sleeping"
            /\ trace' = Append(trace, "sleep")
            /\ UNCHANGED niche_results
       ELSE /\ pc' = "check"
            /\ niche_results' = results
            /\ trace' = trace
    /\ UNCHANGED <<world, threshold, sessions, suggestions, results, inflight,
                   fileOpen, written, log, logBefore, exitCode, message, runs>>
    /\ UNCHANGED <<fetchVars, retryVars>>

\* the delay is over; get_result_count: session.get(search_url, ...) is issued
CountSend ==
    /\ pc = "sleeping"
    /\ pc' = "count_inflight"
    /\ inflight' = inflight + 1
    /\ trace' = Append(trace, "count")
    /\ UNCHANGED <<world, threshold, sessions, suggestions, results, niche_results,
                   fileOpen, written, log, logBefore, exitCode, message, runs>>
    /\ UNCHANGED <<fetchVars, retryVars>>

\* variant: a loop that ends, without a sample, at the first failed count
CountRecvSkipFailed ==
    /\ pc = "count_inflight"
    /\ \E resp \in RunPages(world) :
        LET r == get_result_count(resp)
        IN  /\ results' = IF r.value = -1 THEN results
                          ELSE Append(results, <<suggestions[Len(results) + 1], r.value>>)
            /\ pc' = IF r.value = -1 THEN "check" ELSE "loop"
            /\ niche_results' = IF r.value = -1 THEN results ELSE niche_results
            /\ UNCHANGED <<exitCode, message>>
    /\ inflight' = inflight - 1
    /\ UNCHANGED <<world, threshold, sessions, suggestions, trace,
                   fileOpen, written, log, logBefore, runs>>
    /\ UNCHANGED <<fetchVars, retryVars>>

\* get_result_count returns; results.append((suggestion, count))
CountRecv ==
    /\ pc = "count_inflight"
    /\ \E resp \in RunPages(world) :
        LET r == get_result_count(resp)
        IN  IF r.raised # "none"
            THEN /\ Exit(1, "error")
                 /\ UNCHANGED results
            ELSE /\ results' = Append(results, <<suggestions[Len(results) + 1], r.value>>)
                 /\ pc' = "loop"
                 /\ UNCHANGED <<exitCode, message>>
    /\ inflight' = inflight - 1
    /\ UNCHANGED <<world, threshold, sessions, suggestions, niche_results, trace,
                   fileOpen, written, log, logBefore, runs>>
    /\ UNCHANGED <<fetchVars, retryVars>>

\* variant: a top level that reports even without samples
CheckResultsNoExit ==
    /\ pc = "check"
    /\ pc' = "open"
    /\ UNCHANGED <<exitCode, message>>
    /\ UNCHANGED <<world, threshold, sessions, suggestions, results, niche_results,
                   inflight, trace, fileOpen, written, log, logBefore, runs>>
    /\ UNCHANGED <<fetchVars, retryVars>>

\* `if not niche_results: ... exit(1)`, else on to the report
CheckResults ==
    /\ pc = "check"
    /\ IF niche_results = <<>>
       THEN Exit(1, "no_results")
       ELSE /\ pc' = "open"
            /\ UNCHANGED <<exitCode, message>>
    /\ UNCHANGED <<world, threshold, sessions, suggestions, results, niche_results,
                   inflight, trace, fileOpen, written, log, logBefore, runs>>
    /\ UNCHANGED <<fetchVars, retryVars>>

\* variant: the log opened in mode 'w'
OpenLogTruncating ==
    /\ pc = "open"
    /\ pc' = "header"
    /\ fileOpen' = TRUE
    /\ log' = <<>>
    /\ UNCHANGED <<exitCode, message>>
    /\ UNCHANGED <<world, threshold, sessions, suggestions, results, niche_results,
                   inflight, trace, written, logBefore, runs>>
    /\ UNCHANGED <<fetchVars, retryVars>>

\* open('discovered_niches.log', 'a'): the file is opened at its end, or open
\* raises OSError, which `except Exception` turns into exit(1)
OpenLog ==
    /\ pc = "open"
    /\ \/ /\ pc' = "header"
          /\ fileOpen' = TRUE
          /\ UNCHANGED <<exitCode, message>>
       \/ /\ Exit(1, "error")
          /\ UNCHANGED fileOpen
    /\ UNCHANGED <<world, threshold, sessions, suggestions, results, niche_results,
                   inflight, trace, written, log, logBefore, runs>>
    /\ UNCHANGED <<fetchVars, retryVars>>

\* f.write(header)
WriteHeader ==
    /\ pc = "header"
    /\ pc' = "lines"
    /\ log' = Append(log, Header(threshold))
    /\ written' = 0
    /\ UNCHANGED <<world, threshold, sessions, suggestions, results, niche_results,
                   inflight, trace, fileOpen, logBefore, exitCode, message, runs>>
    /\ UNCHANGED <<fetchVars, retryVars>>

\* one turn of `for keyword, count in sorted(low_comp, ...)`: f.write(line)
WriteLine ==
    /\ pc = "lines"
    /\ written < Len(Report(niche_results, threshold))
    /\ log' = Append(log, Line(Report(niche_results, threshold)[written + 1]))
    /\ written' = written + 1
    /\ UNCHANGED <<world, pc, threshold, sessions, suggestions, results, niche_results,
                   inflight, trace, fileOpen, logBefore, exitCode, message, runs>>
    /\ UNCHANGED <<fetchVars, retryVars>>

\* the with block ends: the file is closed and the script ends with status 0
FinishReport ==
    /\ pc = "lines"
    /\ written = Len(Report(niche_results, threshold))
    /\ fileOpen' = FALSE
    /\ Exit(0, "completed")
    /\ UNCHANGED <<world, threshold, sessions, suggestions, results, niche_results,
                   inflight, trace, written, log, logBefore, runs>>
    /\ UNCHANGED <<fetchVars, retryVars>>

TryPcs == {"start", "suggest", "suggest_inflight", "loop", "sleeping",
           "count_inflight", "check", "open", "header", "lines"}

\* variant: an interrupt deferred while a delay or a request is in flight
InterruptBetweenIterations ==
    /\ pc \in TryPcs \ {"suggest_inflight", "sleeping", "count_inflight"}
    /\ Exit(0, "cancelled")
    /\ inflight' = 0
    /\ fileOpen' = FALSE
    /\ UNCHANGED <<world, threshold, sessions, suggestions, results, niche_results,
                   trace, written, log, logBefore, runs>>
    /\ UNCHANGED <<fetchVars, retryVars>>

\* variant: a cancellation that exits with status 1
InterruptExitOne ==
    /\ pc \in TryPcs
    /\ Exit(1, "cancelled")
    /\ inflight' = 0
    /\ fileOpen' = FALSE
    /\ UNCHANGED <<world, threshold, sessions, suggestions, results, niche_results,
                   trace, written, log, logBefore, runs>>
    /\ UNCHANGED <<fetchVars, retryVars>>

\* KeyboardInterrupt raised anywhere in the try block: no inner `except
\* Exception` catches it, the with block closes the file, and
\* `except KeyboardInterrupt` prints the cancellation message and calls exit(0)
Interrupt ==
    /\ pc \in TryPcs
    /\ Exit(0, "cancelled")
    /\ inflight' = 0
    /\ fileOpen' = FALSE
    /\ UNCHANGED <<world, threshold, sessions, suggestions, results, niche_results,
                   trace, written, log, logBefore, runs>>
    /\ UNCHANGED <<fetchVars, retryVars>>

\* the script is started again; only discovered_niches.log outlives a run
NewRun ==
    /\ pc = "exited"
    /\ runs < MaxRuns
    /\ runs' = runs + 1
    /\ pc' = "start"
    /\ threshold' \in Thresholds(world)
    /\ sessions' = 0
    /\ suggestions' = <<>>
    /\ results' = <<>>
    /\ niche_results' = <<>>
    /\ inflight' = 0
    /\ trace' = <<>>
    /\ fileOpen' = FALSE
    /\ written' = 0
    /\ logBefore' = log
    /\ exitCode' = -1
    /\ message' = ""
    /\ UNCHANGED <<world, log>>
    /\ UNCHANGED <<fetchVars, retryVars>>

runIdle ==
    /\ world = "none"
    /\ pc = "idle"
    /\ threshold = 0
    /\ sessions = 0
    /\ suggestions = <<>>
    /\ results = <<>>
    /\ niche_results = <<>>
    /\ inflight = 0
    /\ trace = <<>>
    /\ fileOpen = FALSE
    /\ written = 0
    /\ log = <<>>
    /\ logBefore = <<>>
    /\ exitCode = -1
    /\ message = ""
    /\ runs = 0

\* ============================================================ specifications
\* one run of the script
Init == InitRun("full") /\ fetchIdle /\ retryIdle

Next ==
    \/ create_session
    \/ SuggestSend
    \/ SuggestRecv
    \/ LoopNext
    \/ CountSend
    \/ CountRecv
    \/ CheckResults
    \/ OpenLog
    \/ WriteHeader
    \/ WriteLine
    \/ FinishReport
    \/ Interrupt

Spec == Init /\ [][Next]_vars

\* several runs of the script, one after the other, on the same log file
InitRuns == InitRun("small") /\ fetchIdle /\ retryIdle

NextRuns ==
    \/ Next
    \/ NewRun

SpecRuns == InitRuns /\ [][NextRuns]_vars

\* one call of a fetcher on one response
InitFetchers == runIdle /\ InitFetch /\ retryIdle

NextFetchers ==
    \/ CallGetSuggestions
    \/ CallGetResultCount

SpecFetchers == InitFetchers /\ [][NextFetchers]_vars

\* one logical request through the adapter
InitRequest == runIdle /\ fetchIdle /\ InitRetry

NextRequest ==
    \/ RequestSend
    \/ AttemptResult

SpecRequest == InitRequest /\ [][NextRequest]_vars

\* ============================================================ properties
NumOf(e) == Cardinality({i \in 1..Len(trace) : trace[i] = e})

CountOf(x, s) == Cardinality({i \in 1..Len(s) : s[i] = x})

\* discover_niches has returned to __main__
DiscoveryReturned ==
    \/ pc \in {"check", "open", "header", "lines"}
    \/ pc = "exited" /\ message \in {"completed", "no_results"}

\* C1: whatever the outcomes of get_result_count (a count or -1), results holds
\* the samples of the suggestions processed so far, in the suggestions' order,
\* and when discover_niches returns for a non-empty suggestion sequence it
\* returns exactly one sample per suggestion; a -1 does not end the loop.
C1_OneSamplePerSuggestion ==
    /\ Len(results) <= Len(suggestions)
    /\ \A i \in 1..Len(results) :
          /\ results[i][1] = suggestions[i]
          /\ results[i][2] = -1 \/ results[i][2] >= 0
    /\ (DiscoveryReturned /\ suggestions # <<>>) =>
          /\ Len(results) = Len(suggestions)
          /\ niche_results = results

C1_Witness ==
    /\ DiscoveryReturned
    /\ Len(suggestions) = 2
    /\ suggestions[1] # suggestions[2]
    /\ niche_results = <<<<suggestions[1], -1>>, <<suggestions[2], 7>>>>

\* the report lines the current run has written after its header
WrittenLines == SubSeq(log, Len(logBefore) + 2, Len(log))

\* C2: when a run completes, a sample is among the written report lines iff
\* 0 < count < threshold (as often as it occurs among the samples), the lines
\* are in non-decreasing order of count, and nothing is reported for a
\* threshold of 0 or less.
C2_ReportFilter ==
    (pc = "exited" /\ message = "completed") =>
        /\ \A i \in 1..Len(niche_results) :
              CountOf(Line(niche_results[i]), WrittenLines) =
                  IF 0 < niche_results[i][2] /\ niche_results[i][2] < threshold
                  THEN CountOf(niche_results[i], niche_results)
                  ELSE 0
        /\ Len(WrittenLines) =
              Cardinality({i \in 1..Len(niche_results) :
                              0 < niche_results[i][2] /\ niche_results[i][2] < threshold})
        /\ \A i, j \in 1..Len(WrittenLines) :
              i < j => ParseInt(WrittenLines[i].text) <= ParseInt(WrittenLines[j].text)
        /\ threshold <= 0 => WrittenLines = <<>>

C2_Witness ==
    /\ pc = "exited" /\ message = "completed"
    /\ Len(niche_results) = 2
    /\ niche_results[1][2] > niche_results[2][2]
    /\ Len(WrittenLines) = 2
    /\ WrittenLines[1] = Line(niche_results[2])

\* C3: the exit status is 1 exactly for the runs that end with the "no results"
\* error or in the handler of an unexpected exception, and 0 exactly for the
\* runs that complete the report or are interrupted; the "no results" exit
\* happens only with an empty suggestion sequence, and a completed run had at
\* least one suggestion.
C3_ExitStatus ==
    /\ pc # "exited" => exitCode = -1
    /\ pc = "exited" =>
          /\ exitCode \in {0, 1}
          /\ exitCode = 1 <=> message \in {"no_results", "error"}
          /\ exitCode = 0 <=> message \in {"completed", "cancelled"}
          /\ message = "no_results" => suggestions = <<>> /\ NumOf("suggest") = 1
          /\ message = "completed" => suggestions # <<>>
          /\ (suggestions = <<>> /\ message # "cancelled") => exitCode = 1

C3_Witness ==
    /\ pc = "exited"
    /\ message = "completed"
    /\ exitCode = 0
    /\ suggestions # <<>>
    /\ Report(niche_results, threshold) = <<>>

\* items on which the comprehension of get_suggestions raises
ItemRaises(item) ==
    \/ item.k = "scalar"
    \/ item.has /\ item.k \in {"string", "array"}

ValueOf(item) == item.v

\* the values of the objects that have one, in order
ValuesOf(items) == [i \in 1..Len(SelectSeq(items, LAMBDA it : it.has)) |->
                       ValueOf(SelectSeq(items, LAMBDA it : it.has)[i])]

\* no element of the page has a text that a pattern matches
HasNumber(text) ==
    \E k \in 1..Len(patterns) : \E i \in 1..(Len(text) - 1) : MatchesAt(patterns[k], text, i)

NoNumberOnPage(page) == \A s \in 1..Len(selectors) : ~(page[s].present /\ HasNumber(page[s].text))

SuggDone == fcall = "get_suggestions" /\ sugg_out.raised # "pending"
CountDone == fcall = "get_result_count" /\ count_out.raised # "pending"

\* C4 as stated: every failure mode, items that are not objects included,
\* gives an empty sequence.
C4_AsStated ==
    /\ SuggDone =>
          /\ sugg_out.raised = "none"
          /\ (\/ sugg_resp.kind \in SuggFailureKinds
              \/ \E i \in 1..Len(sugg_resp.items) : sugg_resp.items[i].k # "object")
                => sugg_out.value = <<>>
    /\ CountDone =>
          /\ count_out.raised = "none"
          /\ count_out.value = -1 \/ count_out.value >= 0

\* C4: neither fetcher raises to its caller. get_suggestions returns the empty
\* sequence for a failed request, a non-JSON body, a missing or non-iterable
\* "suggestions" field and a list with an item on which the membership test or
\* the lookup raises; otherwise it returns the values of the objects that have
\* one (other items are skipped). get_result_count returns -1 for a failed
\* request, an exception and a page without a matching selector and pattern,
\* and always -1 or a non-negative integer.
C4_NoFailurePropagates ==
    /\ SuggDone =>
          /\ sugg_out.raised = "none"
          /\ (\/ sugg_resp.kind \in SuggFailureKinds
              \/ \E i \in 1..Len(sugg_resp.items) : ItemRaises(sugg_resp.items[i]))
                => sugg_out.value = <<>>
          /\ (/\ sugg_resp.kind = "list"
              /\ \A i \in 1..Len(sugg_resp.items) : ~ItemRaises(sugg_resp.items[i]))
                => sugg_out.value = ValuesOf(sugg_resp.items)
    /\ CountDone =>
          /\ count_out.raised = "none"
          /\ count_out.value = -1 \/ count_out.value >= 0
          /\ (count_resp.kind # "page" \/ NoNumberOnPage(count_resp.page))
                => count_out.value = -1

C4_Witness ==
    /\ SuggDone
    /\ sugg_resp.kind = "list"
    /\ Len(sugg_resp.items) = 2
    /\ sugg_resp.items[1] = Obj("a")
    /\ sugg_resp.items[2] = Scalar
    /\ sugg_out = Returned(<<>>)

\* C5: no step of any run, whatever its outcome, truncates or rewrites the
\* niche log: the content before the step is a prefix of the content after it,
\* and so is the content the file had when the run started.
C5_AppendOnly == [][IsPrefix(log, log') /\ IsPrefix(logBefore', log')]_vars

C5_Witness ==
    /\ runs = 2
    /\ pc = "exited"
    /\ Len(logBefore) >= 2
    /\ Len(log) >= Len(logBefore) + 2

\* the number the ordered patterns extract from a text that has one
Least(S) == CHOOSE x \in S : \A y \in S : x <= y

FirstPattern(text) ==
    Least({k \in 1..Len(patterns) :
              \E i \in 1..(Len(text) - 1) : MatchesAt(patterns[k], text, i)})

NumberOf(text) ==
    LET p == patterns[FirstPattern(text)]
        i == Least({j \in 1..(Len(text) - 1) : MatchesAt(p, text, j)})
    IN  ParseInt(GroupAt(p, text, i))

PresentSelectors(page) == {s \in 1..Len(selectors) : page[s].present}

NumberSelectors(page) ==
    {s \in 1..Len(selectors) : page[s].present /\ HasNumber(page[s].text)}

\* C6 as stated: the first selector that matches an element decides, and the
\* result is -1 when its text has no count.
C6_AsStated ==
    (CountDone /\ count_resp.kind = "page") =>
        count_out.value =
            IF PresentSelectors(count_resp.page) = {} THEN -1
            ELSE LET s == Least(PresentSelectors(count_resp.page))
                 IN  IF HasNumber(count_resp.page[s].text)
                     THEN NumberOf(count_resp.page[s].text)
                     ELSE -1

\* C6: the outcome is decided by the first selector candidate, in list order,
\* whose element has a text that some pattern matches: the result is the
\* number of the first matching pattern on that text; an element whose text
\* has no count is passed over, and the result is -1 only when no candidate
\* yields a number.
C6_FirstSelectorWithNumber ==
    (CountDone /\ count_resp.kind = "page") =>
        count_out.value =
            IF NumberSelectors(count_resp.page) = {} THEN -1
            ELSE NumberOf(count_resp.page[Least(NumberSelectors(count_resp.page))].text)

C6_Witness ==
    /\ CountDone
    /\ count_resp.kind = "page"
    /\ count_resp.page[1] = Elem(<<Word("over")>>)
    /\ count_resp.page[2] = Elem(<<Num(<<"7">>), Word("Results"), Num(<<"0">>)>>)
    /\ count_out = Returned(7)

\* C7 as stated: a cancelled run has appended the sample of every iteration it
\* started (the interrupt is honored only between iterations).
C7_AsStated ==
    (pc = "exited" /\ message = "cancelled") => Len(results) = NumOf("sleep")

\* C7: an interrupt is honored at whatever point of the try block it arrives,
\* also while a delay or an HTTP call is in flight: the call is abandoned, no
\* sample is appended for its iteration, and the run ends with the
\* cancellation message and status 0.
C7_InterruptAbortsCall ==
    /\ pc \in {"suggest_inflight", "sleeping", "count_inflight"} => ENABLED Interrupt
    /\ (pc = "exited" /\ message = "cancelled") =>
          /\ exitCode = 0
          /\ inflight = 0
          /\ Len(results) <= NumOf("sleep")
          /\ NumOf("sleep") <= Len(results) + 1
          /\ NumOf("count") <= NumOf("sleep")

C7_Witness ==
    /\ pc = "exited"
    /\ message = "cancelled"
    /\ Len(results) = 1
    /\ NumOf("count") = 2

\* an attempt after which the adapter may send again
Retryable(o) ==
    \/ o.err
    \/ o.status \in RETRY_STATUS_CODES
    \/ o.retryAfter /\ o.status \in RETRY_AFTER_STATUS_CODES

\* C8 as stated: at most 3 sends, a re-send only after a listed status.
C8_AsStated ==
    /\ sends <= 3
    /\ \A i \in 1..(sends - 1) : attemptLog[i].status \in RETRY_STATUS_CODES

\* C8: a logical request is sent at most MAX_RETRIES + 1 = 4 times (the first
\* send and at most 3 re-sends); a re-send happens only after a transport
\* error, a response whose status is in RETRY_STATUS_CODES, or a 413/429/503
\* response carrying Retry-After; once the retries are used up the failure is
\* handed to the fetcher as a request failure.
C8_RetryPolicy ==
    /\ sends <= MAX_RETRIES + 1
    /\ Len(attemptLog) <= sends
    /\ \A i \in 1..(sends - 1) : Retryable(attemptLog[i])
    /\ rphase = "done" =>
          /\ Len(attemptLog) = sends
          /\ rresult = "ok" <=> attemptLog[sends] = Response(200, FALSE)
          /\ (sends = MAX_RETRIES + 1 /\ attemptLog[sends] # Response(200, FALSE))
                => rresult \in {"RetryError", "ConnectionError", "HTTPError"}

C8_Witness ==
    /\ rphase = "done"
    /\ sends = 4
    /\ \A i \in 1..4 : attemptLog[i] = Response(503, FALSE)
    /\ rresult = "RetryError"

\* C9: one client per run, created before any request; the suggestion request
\* comes first; then delays and result-count requests alternate, each request
\* right after its delay and only once the previous sample is appended; at
\* most one request is in flight; with no suggestions there is neither a delay
\* nor a result-count request.
C9_SequentialPaced ==
    /\ inflight \in {0, 1}
    /\ inflight = 1 <=> pc \in {"suggest_inflight", "count_inflight"}
    /\ sessions <= 1
    /\ NumOf("session") = sessions
    /\ \A i \in 1..Len(trace) :
          trace[i] = CASE i = 1 -> "session"
                       [] i = 2 -> "suggest"
                       [] i > 2 /\ i % 2 = 1 -> "sleep"
                       [] OTHER -> "count"
    /\ pc # "exited" =>
          NumOf("count") = Len(results) + (IF pc = "count_inflight" THEN 1 ELSE 0)
    /\ pc # "exited" =>
          NumOf("sleep") = Len(results)
                             + (IF pc \in {"sleeping", "count_inflight"} THEN 1 ELSE 0)
    /\ NumOf("count") <= Len(suggestions)
    /\ suggestions = <<>> => NumOf("sleep") = 0 /\ NumOf("count") = 0

C9_Witness ==
    /\ pc = "check"
    /\ trace = <<"session", "suggest", "sleep", "count", "sleep", "count">>
    /\ Len(niche_results) = 2

\* what a completed report appends: the header, then the report lines
Block == <<Header(threshold)>> \o
         [i \in 1..Len(Report(niche_results, threshold)) |->
             Line(Report(niche_results, threshold)[i])]

\* C10 as stated: an ended run has modified the log iff discovery returned at
\* least one sample, and then it has appended the header and every report line.
C10_AsStated ==
    pc = "exited" =>
        log = IF niche_results = <<>> THEN logBefore ELSE logBefore \o Block

\* C10: a run modifies the niche log only if discovery returned at least one
\* sample: a run with no suggestions, or interrupted or failing during
\* discovery, leaves it as it was. A run that completes appends the header and
\* then one line per qualifying sample in ascending count order (the header
\* alone when none qualifies); a run interrupted or failing after discovery
\* returned has appended a possibly empty prefix of that block.
C10_LogEffect ==
    /\ niche_results = <<>> => log = logBefore
    /\ niche_results # <<>> =>
          \E k \in 0..Len(Block) : log = logBefore \o SubSeq(Block, 1, k)
    /\ (pc = "exited" /\ message = "completed") => log = logBefore \o Block
    /\ (pc = "exited" /\ message = "no_results") => log = logBefore

C10_Witness ==
    /\ pc = "exited"
    /\ message = "completed"
    /\ logBefore # <<>>
    /\ niche_results # <<>>
    /\ log = Append(logBefore, Header(threshold))

====
